---- MODULE Spec2Model ----
(***************************************************************************)
(* YouTubeStatsPlugin (manager.py): a display widget that fetches channel   *)
(* statistics through a TTL cache and renders them onto an LED matrix,     *)
(* redrawing only when the statistics changed or a clear is forced.        *)
(*                                                                         *)
(* Each host call (update, display) is one atomic action: the host calls   *)
(* the plugin synchronously and serially.  Time passes between calls.      *)
(***************************************************************************)
EXTENDS Integers, Sequences, FiniteSets, TLC

(* ---------------------------------------------------------------------- *)
(* Bounds of the model                                                     *)
(* ---------------------------------------------------------------------- *)
\* the clock runs from 0 to MaxTime seconds
MaxTime == 3
\* the configured update_interval of the modelled widget, in seconds
RefreshInterval == 2

(* ---------------------------------------------------------------------- *)
(* Values                                                                  *)
(* ---------------------------------------------------------------------- *)
\* Python's None / an Optional value: <<>> is None, <<x>> is x
None == <<>>
Some(x) == <<x>>

\* the calls a handler made to its collaborators: a sequence of names
Has(eff, e) == \E i \in 1..Len(eff) : eff[i] = e
Count(eff, e) == Len(SelectSeq(eff, LAMBDA x : x = e))
\* the surface's part of a call
SurfaceEffects == {"clear", "compose", "set_image", "update_display", "set_last"}
RenderPart(eff) == SelectSeq(eff, LAMBDA x : x \in SurfaceEffects)
\* the fetch step's part of a call
FetchEffects == {"cache_get", "http_get", "counter", "cache_set"}
FetchPart(eff) == SelectSeq(eff, LAMBDA x : x \in FetchEffects)

\* A string is a sequence of one-character strings.
Digits == <<"0", "1", "2", "3", "4", "5", "6", "7", "8", "9">>
IsDigit(c) == \E i \in 1..Len(Digits) : Digits[i] = c
DigitVal(c) == (CHOOSE i \in 1..Len(Digits) : Digits[i] = c) - 1

\* A JSON value as response.json() delivers it: a tag and a payload.
\*   "str"     a string, payload its characters
\*   "int"     an integer number, payload <<n>>
\*   "inf"     a float too large for a double (1e999), parsed as infinity
\*   "null"    JSON null (Python None)
\*   "missing" the key is not in the enclosing object
JStr(s) == [t |-> "str", v |-> s]
JInt(n) == [t |-> "int", v |-> <<n>>]
JInf == [t |-> "inf", v |-> <<>>]
JNull == [t |-> "null", v |-> <<>>]
JMissing == [t |-> "missing", v |-> <<>>]

\* The result of evaluating a Python expression: a value or a raised exception
Ok(x) == [exc |-> "", val |-> <<x>>]
Raise(e) == [exc |-> e, val |-> <<>>]

RECURSIVE DigitsValue(_, _)
\* value of a digit string, most significant digit first
DigitsValue(s, acc) ==
    IF s = <<>> THEN acc ELSE DigitsValue(Tail(s), 10 * acc + DigitVal(Head(s)))

AllDigits(s) == Len(s) > 0 /\ \A i \in 1..Len(s) : IsDigit(s[i])

\* int(x) of Python for a JSON value x
PyInt(x) ==
    CASE x.t = "int" -> Ok(x.v[1])
      [] x.t = "str" ->
            IF AllDigits(x.v) THEN Ok(DigitsValue(x.v, 0))
            ELSE IF Len(x.v) > 1 /\ x.v[1] = "-" /\ AllDigits(Tail(x.v))
                 THEN Ok(0 - DigitsValue(Tail(x.v), 0))
                 ELSE Raise("ValueError")
      [] x.t = "inf" -> Raise("OverflowError")
      [] x.t = "null" -> Raise("TypeError")
      [] OTHER -> Raise("TypeError")

\* d[key] of Python on a JSON object: KeyError when the key is missing
PyItem(x) == IF x.t = "missing" THEN Raise("KeyError") ELSE Ok(x)

(* ---------------------------------------------------------------------- *)
(* The remote endpoint: the responses requests.get can produce             *)
(* ---------------------------------------------------------------------- *)
\* status: "net_error"  requests.get raises (connection error, timeout)
\*         "http_error" raise_for_status raises (non-2xx)
\*         "bad_json"   response.json() raises (body is not JSON)
\*         "ok"         a JSON object was parsed
\* items:  "absent" no 'items' key, "empty" an empty array, "one" a first item
\* title, subs, views: snippet.title, statistics.subscriberCount and
\* statistics.viewCount of the first item
\* counter: what increment_api_counter does when the call reaches it:
\*         "ok"     the host's counter counts and returns
\*         "absent" web_interface_v2 is not importable, the no-op fallback runs
\*         "raises" the host's counter raises
CounterOutcomes == {"ok", "absent", "raises"}
Response(st, it, ti, su, vi) ==
    [status |-> st, items |-> it, title |-> ti, subs |-> su, views |-> vi,
     counter |-> "ok"]
WithCounter(resp, k) == [resp EXCEPT !.counter = k]
Item(ti, su, vi) == Response("ok", "one", ti, su, vi)
NoItem(st, it) == Response(st, it, JMissing, JMissing, JMissing)

ShortName == <<"T", "V">>
LongName == <<"C", "h", "a", "n", "n", "e", "l">>

ValidResponses ==
    { Item(JStr(ShortName), JStr(<<"1", "2", "3", "4">>), JStr(<<"5", "6">>)),
      Item(JStr(LongName), JStr(<<"1", "2", "3", "5">>), JInt(56)) }

\* parsed without an exception, but the title is a number, which the
\* composer cannot draw, and a count is below zero
OddResponses ==
    { Item(JInt(7), JStr(<<"-", "1">>), JStr(<<"5", "6">>)) }

TransportFailures ==
    { NoItem("net_error", "absent"), NoItem("http_error", "absent") }

ParseFailures ==
    { NoItem("bad_json", "absent"),
      NoItem("ok", "absent"),
      NoItem("ok", "empty"),
      Item(JMissing, JStr(<<"1">>), JStr(<<"2">>)),
      Item(JStr(ShortName), JMissing, JStr(<<"2">>)),
      Item(JStr(ShortName), JStr(<<"1">>), JMissing),
      Item(JStr(ShortName), JStr(<<"1", "k">>), JStr(<<"2">>)),
      Item(JStr(ShortName), JStr(<<"1">>), JNull),
      Item(JStr(ShortName), JInf, JStr(<<"2">>)) }

\* the usage counter is missing or fails while the endpoint answers
CounterFailures ==
    { WithCounter(Item(JStr(ShortName), JStr(<<"1", "2", "3", "4">>), JStr(<<"5", "6">>)), "raises"),
      WithCounter(NoItem("ok", "empty"), "absent") }

Responses ==
    ValidResponses \cup OddResponses \cup TransportFailures \cup ParseFailures
        \cup CounterFailures

(* ---------------------------------------------------------------------- *)
(* The host's cache store (cache_manager), one entry under the widget's key*)
(* ---------------------------------------------------------------------- *)
\* cache_manager.get(key, max_age): the entry, if younger than max_age
CacheGet(c, t, max_age) ==
    IF c # None /\ t - c[1].ts < max_age /\ t - c[1].ts < c[1].ttl
    THEN Some(c[1].value) ELSE None

\* cache_manager.set(key, value, ttl)
CacheSet(value, t, ttl) == Some([value |-> value, ts |-> t, ttl |-> ttl])

(* ---------------------------------------------------------------------- *)
(* _get_channel_stats                                                      *)
(* ---------------------------------------------------------------------- *)
\* what one call did: the value returned (ret, None for Python None), the
\* exception that left the call (exc, "" when it returned), the path taken
\* (why), the calls made to collaborators in order (eff), the cache afterwards
\*   why: "config"     api_key or channel_id is empty
\*        "hit"        the cache answered
\*        "net_error"  requests.get raised
\*        "http_error" raise_for_status raised
\*        "bad_json"   response.json() raised
\*        "no_items"   no 'items' key or an empty array
\*        "field"      a field of the first item is missing or malformed
\*        "ok"         a record was parsed and cached
FetchOut(ret, exc, why, eff, c) ==
    [ret |-> ret, exc |-> exc, why |-> why, eff |-> eff, cache |-> c]

\* except requests.exceptions.RequestException / (KeyError, ValueError, TypeError)
CaughtByFetch(e) == e \in {"RequestException", "KeyError", "ValueError", "TypeError"}

\* the dict built from the first item, its three expressions in order
ParseItem(resp) ==
    LET ti == PyItem(resp.title)
        su == IF resp.subs.t = "missing" THEN Raise("KeyError") ELSE PyInt(resp.subs)
        vi == IF resp.views.t = "missing" THEN Raise("KeyError") ELSE PyInt(resp.views)
    IN  IF ti.exc # "" THEN Raise(ti.exc)
        ELSE IF su.exc # "" THEN Raise(su.exc)
        ELSE IF vi.exc # "" THEN Raise(vi.exc)
        ELSE Ok([title |-> ti.val[1], subscribers |-> su.val[1], views |-> vi.val[1]])

\* increment_api_counter('youtube', 1), the host's or the fallback
IncrementApiCounter(resp) ==
    IF resp.counter = "raises" THEN Raise("Exception") ELSE Ok(TRUE)

\* the calls made up to and including the counter; "counter" is the call to
\* increment_api_counter, "counter_raised" marks that it raised
CountedEff(resp) ==
    <<"cache_get", "http_get", "counter">>
        \o (IF IncrementApiCounter(resp).exc # "" THEN <<"counter_raised">> ELSE <<>>)

\* a slip in _get_channel_stats: the entry is stored with a longer ttl
FetchParseLongTtl(c, t, interval, resp) ==
    IF resp.items # "one"
    THEN FetchOut(None, "", "no_items", CountedEff(resp), c)
    ELSE LET parsed == ParseItem(resp) IN
         IF parsed.exc = ""
         THEN FetchOut(Some(parsed.val[1]), "", "ok",
                       CountedEff(resp) \o <<"cache_set">>,
                       CacheSet(parsed.val[1], t, interval + 1))
         ELSE FetchOut(None, IF CaughtByFetch(parsed.exc) THEN "" ELSE parsed.exc,
                       "field", CountedEff(resp), c)

\* the rest of the try block, after the counter: items check, parse, cache.set
FetchParse(c, t, interval, resp) ==
    IF resp.items # "one"
    THEN FetchOut(None, "", "no_items", CountedEff(resp), c)
    ELSE LET parsed == ParseItem(resp) IN
         IF parsed.exc = ""
         THEN FetchOut(Some(parsed.val[1]), "", "ok",
                       CountedEff(resp) \o <<"cache_set">>,
                       CacheSet(parsed.val[1], t, interval))
         ELSE FetchOut(None, IF CaughtByFetch(parsed.exc) THEN "" ELSE parsed.exc,
                       "field", CountedEff(resp), c)

\* a slip in _get_channel_stats: no try/except around the counter
FetchRemoteCounterEscapes(c, t, interval, resp) ==
    IF resp.status \in {"net_error", "http_error", "bad_json"}
    THEN FetchOut(None, "", resp.status, <<"cache_get", "http_get">>, c)
    ELSE IF IncrementApiCounter(resp).exc # ""
    THEN FetchOut(None, IncrementApiCounter(resp).exc, "counter", CountedEff(resp), c)
    ELSE FetchParse(c, t, interval, resp)

\* the try block: requests.get, raise_for_status, json, counter (its own
\* try/except Exception: pass), then the rest
FetchRemote(c, t, interval, resp) ==
    IF resp.status \in {"net_error", "http_error", "bad_json"}
    THEN FetchOut(None, "", resp.status, <<"cache_get", "http_get">>, c)
    ELSE FetchParse(c, t, interval, resp)

\* a slip in _get_channel_stats: max_age is one second short
GetChannelStatsShortMaxAge(cid, key, interval, c, t, resp) ==
    IF key = "" THEN FetchOut(None, "", "config", <<>>, c)
    ELSE IF cid = "" THEN FetchOut(None, "", "config", <<>>, c)
    ELSE LET cached == CacheGet(c, t, interval - 1) IN
         IF cached # None
         THEN FetchOut(cached, "", "hit", <<"cache_get">>, c)
         ELSE FetchRemote(c, t, interval, resp)

\* a slip in _get_channel_stats: the cache is tried before the configuration
GetChannelStatsCacheFirst(cid, key, interval, c, t, resp) ==
    LET cached == CacheGet(c, t, interval) IN
    IF cached # None THEN FetchOut(cached, "", "hit", <<"cache_get">>, c)
    ELSE IF key = "" \/ cid = "" THEN FetchOut(None, "", "config", <<"cache_get">>, c)
    ELSE FetchRemote(c, t, interval, resp)

GetChannelStats(cid, key, interval, c, t, resp) ==
    IF key = "" THEN FetchOut(None, "", "config", <<>>, c)
    ELSE IF cid = "" THEN FetchOut(None, "", "config", <<>>, c)
    ELSE LET cached == CacheGet(c, t, interval) IN
         IF cached # None
         THEN FetchOut(cached, "", "hit", <<"cache_get">>, c)
         ELSE FetchRemote(c, t, interval, resp)

(* ---------------------------------------------------------------------- *)
(* _create_display                                                         *)
(* ---------------------------------------------------------------------- *)
RECURSIVE DigitsOf(_)
\* decimal digits of n >= 0
DigitsOf(n) ==
    IF n < 10 THEN <<Digits[n + 1]>> ELSE DigitsOf(n \div 10) \o <<Digits[(n % 10) + 1]>>

RECURSIVE Grouped(_)
\* thousands separators, from the right
Grouped(s) ==
    IF Len(s) <= 3 THEN s
    ELSE Grouped(SubSeq(s, 1, Len(s) - 3)) \o <<",">> \o SubSeq(s, Len(s) - 2, Len(s))

\* f"{n:,}"
FormatCount(n) ==
    IF n < 0 THEN <<"-">> \o Grouped(DigitsOf(0 - n)) ELSE Grouped(DigitsOf(n))

\* s[:k] of Python: a negative k counts from the end
SliceTo(s, k) ==
    IF k >= 0 THEN SubSeq(s, 1, IF k < Len(s) THEN k ELSE Len(s))
    ELSE SubSeq(s, 1, IF Len(s) + k > 0 THEN Len(s) + k ELSE 0)

\* logo_height, logo_width, right_section_x and max_chars, in integer
\* arithmetic (the code goes through floats: int(h * 0.6), int(w * (lh / h)))
LogoHeight(m) == (m.height * 6) \div 10
LogoWidth(m, logo) == (logo.width * LogoHeight(m)) \div logo.height
RightSectionX(m, logo) == 2 + LogoWidth(m, logo) + 4
MaxChars(m, logo) == (m.width - RightSectionX(m, logo) - 4) \div 8

\* a slip in _create_display: the marker is given two characters of room
TruncateNameShortMarker(name, max_chars) ==
    IF Len(name) > max_chars THEN SliceTo(name, max_chars - 2) \o <<".", ".", ".">>
    ELSE name

\* the channel name as drawn
TruncateName(name, max_chars) ==
    IF Len(name) > max_chars THEN SliceTo(name, max_chars - 3) \o <<".", ".", ".">>
    ELSE name

\* The image, as the three lines of text drawn on it.  drawOk = FALSE is a
\* PIL call raising inside the try block; a title that is no string makes
\* len(channel_name) raise.  Both are caught and give None.
CreateDisplay(stats, logo, font, m, drawOk) ==
    IF stats = None \/ logo = None \/ font = "none" THEN None
    ELSE IF ~drawOk \/ stats[1].title.t # "str" THEN None
    ELSE Some([name |-> TruncateName(stats[1].title.v, MaxChars(m, logo[1])),
               subs |-> FormatCount(stats[1].subscribers) \o <<" ", "s", "u", "b", "s">>,
               views |-> FormatCount(stats[1].views) \o <<" ", "v", "i", "e", "w", "s">>])

(* ---------------------------------------------------------------------- *)
(* The display surface (display_manager)                                   *)
(* ---------------------------------------------------------------------- *)
\* image: the image slot; panel: what the matrix shows (None is blank)
BlankSurface == [image |-> None, panel |-> None]
\* display_manager.clear()
SurfaceClear(sf) == [image |-> None, panel |-> None]
\* display_manager.image = img
SurfaceSetImage(sf, img) == [sf EXCEPT !.image = img]
\* display_manager.update_display()
SurfaceUpdateDisplay(sf) == [sf EXCEPT !.panel = sf.image]

(* ---------------------------------------------------------------------- *)
(* State                                                                   *)
(* ---------------------------------------------------------------------- *)
VARIABLES
    enabled,              \* self.enabled
    channel_id,           \* self.channel_id
    api_key,              \* self.api_key
    update_interval_config, \* self.update_interval_config
    channel_stats,        \* self.channel_stats, None or a stats dict
    last_displayed_stats, \* self.last_displayed_stats
    youtube_logo,         \* self.youtube_logo, None or the logo's size
    font,                 \* self.font: "none", "truetype" or "default"
    cache,                \* the cache entry under the widget's key
    now,                  \* the clock, in seconds
    matrix,               \* display_manager.matrix: width and height
    surface,              \* display_manager: image slot and panel
    call,                 \* what the most recent host call did
    dhist                 \* the display() calls so far, the last two kept

vars == <<enabled, channel_id, api_key, update_interval_config, channel_stats,
          last_displayed_stats, youtube_logo, font, cache, now, matrix, surface,
          call, dhist>>

config == <<channel_id, api_key, update_interval_config, youtube_logo, font, matrix>>

\* the record a valid response parses to
StatsOf(resp) == ParseItem(resp).val[1]

\* the response an earlier run of the widget may have left in the cache
LeftOver == Item(JStr(ShortName), JStr(<<"1", "2", "3", "4">>), JStr(<<"5", "6">>))

MatrixSizes == {[width |-> 64, height |-> 32]}
LogoSize == [width |-> 32, height |-> 32]

\* op: "none" before the first call; seq: the parity of the number of calls
NoCall == [op |-> "none", seq |-> 0, force |-> FALSE, eff |-> <<>>, exc |-> "",
           fetched |-> FALSE, why |-> "", ret |-> None]

\* __init__ and _initialize_display.  cfgEnabled is the host's 'enabled'
\* option, fontFound and logoFound say whether the asset files resolve.
\* a slip in _initialize_display: a missing logo does not disable
InitializeDisplayLogoIgnored(cfgEnabled, logoFound) == cfgEnabled

\* self.enabled after __init__: the host's 'enabled' option, turned off by
\* _initialize_display when the logo is not found or cannot be opened
InitializeDisplay(cfgEnabled, logoFound) == cfgEnabled /\ logoFound

Init ==
    \E cfgEnabled \in BOOLEAN, fontFound \in BOOLEAN, logoFound \in BOOLEAN :
        /\ channel_id \in {"", "UC123"}
        /\ api_key \in {"", "key"}
        /\ update_interval_config = RefreshInterval
        /\ channel_stats = None
        /\ last_displayed_stats = None
        /\ font = IF ~cfgEnabled THEN "none"
                  ELSE IF fontFound THEN "truetype" ELSE "default"
        /\ youtube_logo = IF cfgEnabled /\ logoFound THEN Some(LogoSize) ELSE None
        /\ enabled = InitializeDisplay(cfgEnabled, logoFound)
        /\ cache \in {None, CacheSet(StatsOf(LeftOver), 0, RefreshInterval)}
        /\ now = 0
        /\ matrix \in MatrixSizes
        /\ surface = BlankSurface
        /\ call = NoCall
        /\ dhist = <<>>

(* ---------------------------------------------------------------------- *)
(* update                                                                  *)
(* ---------------------------------------------------------------------- *)
\* the widget and its collaborators, as one record
Widget ==
    [enabled |-> enabled, channel_id |-> channel_id, api_key |-> api_key,
     interval |-> update_interval_config, stats |-> channel_stats,
     last |-> last_displayed_stats, logo |-> youtube_logo, font |-> font,
     cache |-> cache, now |-> now, matrix |-> matrix, surface |-> surface]

\* self._get_channel_stats() on widget w
Fetch(w, resp) ==
    GetChannelStats(w.channel_id, w.api_key, w.interval, w.cache, w.now, resp)

\* a call that did not reach _get_channel_stats
NoFetch(w) ==
    [stats |-> w.stats, cache |-> w.cache, eff |-> <<>>, exc |-> "",
     fetched |-> FALSE, why |-> "", ret |-> None]

\* a slip in update: the enabled test is missing
UpdateOutUnguarded(w, resp) ==
    LET f == Fetch(w, resp) IN
    [stats |-> IF f.exc = "" THEN f.ret ELSE w.stats,
     cache |-> f.cache, eff |-> f.eff, exc |-> f.exc,
     fetched |-> TRUE, why |-> f.why, ret |-> f.ret]

\* a variant of update: a fetch that returns None keeps the old snapshot
UpdateOutKeepsOnNone(w, resp) ==
    IF ~w.enabled THEN NoFetch(w)
    ELSE LET f == Fetch(w, resp) IN
         [stats |-> IF f.exc = "" /\ f.ret # None THEN f.ret ELSE w.stats,
          cache |-> f.cache, eff |-> f.eff, exc |-> f.exc,
          fetched |-> TRUE, why |-> f.why, ret |-> f.ret]

\* the widget after update(): the snapshot, the cache, and what the call did
UpdateOut(w, resp) ==
    IF ~w.enabled THEN NoFetch(w)
    ELSE LET f == Fetch(w, resp) IN
         [stats |-> IF f.exc = "" THEN f.ret ELSE w.stats,
          cache |-> f.cache, eff |-> f.eff, exc |-> f.exc,
          fetched |-> TRUE, why |-> f.why, ret |-> f.ret]

\* the responses that matter to a call: all of them when the call reaches
\* requests.get, one (never looked at) when it does not
AnyResponse == NoItem("net_error", "absent")
ResponsesFor(w) ==
    IF Has(Fetch(w, AnyResponse).eff, "http_get") THEN Responses ELSE {AnyResponse}

Update ==
    \E resp \in (IF enabled THEN ResponsesFor(Widget) ELSE {AnyResponse}) :
      \E u \in {UpdateOut(Widget, resp)} :
        /\ channel_stats' = u.stats
        /\ cache' = u.cache
        /\ call' = [op |-> "update", seq |-> 1 - call.seq, force |-> FALSE,
                    eff |-> u.eff, exc |-> u.exc, fetched |-> u.fetched,
                    why |-> u.why, ret |-> u.ret]
        /\ UNCHANGED <<enabled, config, last_displayed_stats, now, surface, dhist>>

(* ---------------------------------------------------------------------- *)
(* display                                                                 *)
(* ---------------------------------------------------------------------- *)
\* a slip in stats_changed: the title is compared with == instead of !=
StatsChangedTitleInverted(last, cur) ==
    \/ last = None
    \/ last[1].subscribers # cur[1].subscribers
    \/ last[1].views # cur[1].views
    \/ last[1].title = cur[1].title

\* stats_changed: the last displayed record differs on one of three fields
StatsChanged(last, cur) ==
    \/ last = None
    \/ last[1].subscribers # cur[1].subscribers
    \/ last[1].views # cur[1].views
    \/ last[1].title # cur[1].title

\* nothing rendered: the widget as the fetch step u left it
NoRender(u, w) ==
    [stats |-> u.stats, last |-> w.last, cache |-> u.cache, surface |-> w.surface,
     eff |-> u.eff, exc |-> u.exc, fetched |-> u.fetched, why |-> u.why,
     ret |-> u.ret, snap |-> None, img |-> None]

\* a slip in display: last_displayed_stats is assigned before composing
RedrawRemembersFirst(u, w, force, drawOk) ==
    LET sf1 == IF force THEN SurfaceClear(w.surface) ELSE w.surface
        eff1 == u.eff \o (IF force THEN <<"clear">> ELSE <<>>) \o <<"set_last", "compose">>
        img == CreateDisplay(u.stats, w.logo, w.font, w.matrix, drawOk)
    IN  IF img # None
        THEN [NoRender(u, w) EXCEPT
                !.surface = SurfaceUpdateDisplay(SurfaceSetImage(sf1, img)),
                !.last = u.stats,
                !.eff = eff1 \o <<"set_image", "update_display">>,
                !.snap = u.stats,
                !.img = img]
        ELSE [NoRender(u, w) EXCEPT
                !.surface = sf1, !.last = u.stats, !.eff = eff1, !.snap = u.stats]

\* the redraw: clear when forced, compose, hand off, remember what was shown
Redraw(u, w, force, drawOk) ==
    LET sf1 == IF force THEN SurfaceClear(w.surface) ELSE w.surface
        eff1 == u.eff \o (IF force THEN <<"clear">> ELSE <<>>) \o <<"compose">>
        img == CreateDisplay(u.stats, w.logo, w.font, w.matrix, drawOk)
    IN  IF img # None
        THEN [NoRender(u, w) EXCEPT
                !.surface = SurfaceUpdateDisplay(SurfaceSetImage(sf1, img)),
                !.last = u.stats,
                !.eff = eff1 \o <<"set_image", "update_display", "set_last">>,
                !.snap = u.stats,
                !.img = img]
        ELSE [NoRender(u, w) EXCEPT
                !.surface = sf1, !.eff = eff1, !.snap = u.stats]

\* the fetch step of display(): update() when there is no snapshot
\* a slip in display: update() is called whether or not a snapshot is held
LazyUpdateAlways(w, resp) ==
    IF w.enabled THEN UpdateOut(w, resp) ELSE NoFetch(w)

LazyUpdate(w, resp) ==
    IF w.enabled /\ w.stats = None THEN UpdateOut(w, resp) ELSE NoFetch(w)

\* a slip in display: the skip test forgets force_clear
DisplayOutSkipIgnoresForce(w, force, resp, drawOk) ==
    LET u == LazyUpdate(w, resp)
    IN  IF ~w.enabled \/ u.exc # "" \/ u.stats = None THEN NoRender(u, w)
        ELSE IF ~StatsChanged(w.last, u.stats)
        THEN [NoRender(u, w) EXCEPT !.snap = u.stats]
        ELSE Redraw(u, w, force, drawOk)

\* the widget after display(force_clear)
DisplayOut(w, force, resp, drawOk) ==
    LET u == LazyUpdate(w, resp)
    IN  IF ~w.enabled \/ u.exc # "" \/ u.stats = None THEN NoRender(u, w)
        ELSE IF ~force /\ ~StatsChanged(w.last, u.stats)
        THEN [NoRender(u, w) EXCEPT !.snap = u.stats]
        ELSE Redraw(u, w, force, drawOk)

\* The summary of a display() call kept in dhist: the force_clear argument,
\* the snapshot the redraw decision saw (None when there was none), the image
\* composed (None when none was), the calls made to the surface, and what
\* the panel shows when the call returns.
Summary(force, d) ==
    [force |-> force, snap |-> d.snap, img |-> d.img,
     render |-> RenderPart(d.eff), shown |-> d.surface.panel]

Remember(h, x) == IF Len(h) < 2 THEN Append(h, x) ELSE Append(Tail(h), x)

Display ==
    \E force \in BOOLEAN, drawOk \in BOOLEAN :
      \E resp \in (IF enabled /\ channel_stats = None
                   THEN ResponsesFor(Widget) ELSE {AnyResponse}) :
        \E d \in {DisplayOut(Widget, force, resp, drawOk)} :
          /\ channel_stats' = d.stats
          /\ last_displayed_stats' = d.last
          /\ cache' = d.cache
          /\ surface' = d.surface
          /\ call' = [op |-> "display", seq |-> 1 - call.seq, force |-> force,
                      eff |-> d.eff, exc |-> d.exc, fetched |-> d.fetched,
                      why |-> d.why, ret |-> d.ret]
          /\ dhist' = Remember(dhist, Summary(force, d))
          /\ UNCHANGED <<enabled, config, now>>

\* a second passes between two host calls
Tick ==
    /\ now < MaxTime
    /\ now' = now + 1
    /\ UNCHANGED <<enabled, config, channel_stats, last_displayed_stats, cache,
                   surface, call, dhist>>

Next == Update \/ Display \/ Tick

Spec == Init /\ [][Next]_vars

(* ---------------------------------------------------------------------- *)
(* Reading a call record                                                   *)
(* ---------------------------------------------------------------------- *)
\* a and b both happen, every a before every b
Before(eff, a, b) ==
    /\ Has(eff, a) /\ Has(eff, b)
    /\ \A i, j \in 1..Len(eff) : eff[i] = a /\ eff[j] = b => i < j

\* the step is a host call (update or display), not the clock
IsCall == call'.seq # call.seq
\* the most recent display() call and the one before it
LastDisplay == dhist[Len(dhist)]
PrevDisplay == dhist[Len(dhist) - 1]
\* the number of update_display() calls of a display() call
Updates(d) == Count(d.render, "update_display")
\* the most recent host call was a display(): LastDisplay describes it
DisplayJustReturned == call.op = "display" /\ Len(dhist) > 0
\* equal on name, primaryCount and secondaryCount
SameSnapshot(a, b) ==
    /\ a # None /\ b # None
    /\ a[1].title = b[1].title
    /\ a[1].subscribers = b[1].subscribers
    /\ a[1].views = b[1].views

(* ---------------------------------------------------------------------- *)
(* C1                                                                      *)
(* ---------------------------------------------------------------------- *)
\* C1: of two consecutive display() calls without force_clear that see the
\* same snapshot (title, subscribers, views), at most one calls
\* update_display(); when the first one rendered, the second one does no
\* clear, no compose and no hand-off and leaves the surface as it was.
C1_NoRedundantRedraw ==
    (/\ enabled /\ Len(dhist) = 2
     /\ ~PrevDisplay.force /\ ~LastDisplay.force
     /\ SameSnapshot(PrevDisplay.snap, LastDisplay.snap))
    => /\ Updates(PrevDisplay) + Updates(LastDisplay) <= 1
       /\ Updates(PrevDisplay) = 1 =>
             /\ LastDisplay.img = None
             /\ LastDisplay.shown = PrevDisplay.shown
             /\ call.op = "display" => RenderPart(call.eff) = <<>>

\* two display() calls without force_clear on the same snapshot: the first
\* rendered it, the second skipped
C1_Witness ==
    /\ enabled /\ Len(dhist) = 2 /\ call.op = "display"
    /\ ~PrevDisplay.force /\ ~LastDisplay.force
    /\ SameSnapshot(PrevDisplay.snap, LastDisplay.snap)
    /\ Updates(PrevDisplay) = 1 /\ Updates(LastDisplay) = 0

(* ---------------------------------------------------------------------- *)
(* C2                                                                      *)
(* ---------------------------------------------------------------------- *)
\* a display() call on an enabled widget that held a snapshot on entry
HeldSnapshot == DisplayJustReturned /\ enabled /\ ~call.fetched /\ LastDisplay.snap # None

\* C2 as stated: every display(force_clear=True) on an enabled widget holding
\* a snapshot does clear, compose, hand-off and update_display, in this order.
C2_AsStated ==
    (HeldSnapshot /\ call.force)
    => RenderPart(call.eff) = <<"clear", "compose", "set_image", "update_display", "set_last">>

\* C2 (amended): every display(force_clear=True) on an enabled widget holding
\* a snapshot calls clear() first and then composes the snapshot, whether or
\* not it equals the last displayed one; the image is handed off and
\* update_display() called exactly when composition returned an image;
\* display(force_clear=False) never calls clear().
C2_ForceClearSequence ==
    /\ (HeldSnapshot /\ call.force) =>
          IF LastDisplay.img # None
          THEN RenderPart(call.eff) =
                  <<"clear", "compose", "set_image", "update_display", "set_last">>
          ELSE RenderPart(call.eff) = <<"clear", "compose">>
    /\ (call.op = "display" /\ ~call.force) => ~Has(call.eff, "clear")

\* a forced display of a snapshot that the display() before had already
\* rendered: it is cleared, composed and handed off again
C2_Witness ==
    /\ HeldSnapshot /\ call.force /\ Len(dhist) = 2
    /\ Updates(PrevDisplay) = 1
    /\ SameSnapshot(PrevDisplay.snap, LastDisplay.snap)
    /\ Updates(LastDisplay) = 1
    /\ surface.panel = LastDisplay.img

(* ---------------------------------------------------------------------- *)
(* C3                                                                      *)
(* ---------------------------------------------------------------------- *)
\* the widget's configuration has a channel id and an API key
ValidConfig == channel_id # "" /\ api_key # ""

\* C3: with channel id and API key set and an entry in the cache, a fetch
\* made less than update_interval seconds after the entry was stored returns
\* the entry's record, makes no network call and leaves the cache alone; a
\* fetch made at or after update_interval seconds makes exactly one.
\* (The cache's get accepts entries younger than max_age, as the host's
\* cache contract states it.)
C3_CacheTtl ==
    [][(IsCall /\ enabled /\ ValidConfig /\ call'.fetched /\ cache # None) =>
         IF now - cache[1].ts < update_interval_config
         THEN /\ call'.ret = Some(cache[1].value)
              /\ call'.exc = ""
              /\ FetchPart(call'.eff) = <<"cache_get">>
              /\ cache' = cache
         ELSE /\ Count(call'.eff, "http_get") = 1
              /\ Before(call'.eff, "cache_get", "http_get")]_vars

\* a fetch exactly update_interval seconds after the entry was stored went
\* to the network (and failed, so the old entry is still there)
C3_Witness ==
    /\ enabled /\ ValidConfig /\ call.fetched
    /\ Count(call.eff, "http_get") = 1 /\ call.ret = None
    /\ cache # None /\ now - cache[1].ts = update_interval_config

(* ---------------------------------------------------------------------- *)
(* C4                                                                      *)
(* ---------------------------------------------------------------------- *)
\* C4: last_displayed_stats changes only in a display() call whose
\* composition returned an image that was put in the image slot and shown by
\* update_display(), after that hand-off, and becomes the snapshot that was
\* composed; a display() whose composition returns None hands nothing off,
\* does not call update_display() and leaves last_displayed_stats as it
\* was; update() never changes last_displayed_stats.
C4_RenderStateAfterHandOff ==
    [][/\ (last_displayed_stats' # last_displayed_stats \/
           (IsCall /\ Has(call'.eff, "set_last"))) =>
             /\ IsCall /\ call'.op = "display"
             /\ dhist'[Len(dhist')].img # None
             /\ surface'.image = dhist'[Len(dhist')].img
             /\ surface'.panel = dhist'[Len(dhist')].img
             /\ Count(call'.eff, "update_display") = 1
             /\ Before(call'.eff, "compose", "set_image")
             /\ Before(call'.eff, "set_image", "update_display")
             /\ Before(call'.eff, "update_display", "set_last")
             /\ last_displayed_stats' = dhist'[Len(dhist')].snap
             /\ last_displayed_stats' = channel_stats'
       /\ (IsCall /\ call'.op = "display" /\ Has(call'.eff, "compose")
             /\ dhist'[Len(dhist')].img = None) =>
             /\ ~Has(call'.eff, "set_image")
             /\ ~Has(call'.eff, "update_display")
             /\ surface'.image = (IF call'.force THEN None ELSE surface.image)
             /\ last_displayed_stats' = last_displayed_stats
       /\ (IsCall /\ call'.op = "update") =>
             last_displayed_stats' = last_displayed_stats]_vars

\* a display() whose composition returned None left last_displayed_stats
\* alone, and the next display() of the same snapshot rendered it
C4_Witness ==
    /\ DisplayJustReturned /\ Len(dhist) = 2
    /\ PrevDisplay.snap # None /\ PrevDisplay.img = None
    /\ ~LastDisplay.force /\ LastDisplay.snap = PrevDisplay.snap
    /\ Updates(LastDisplay) = 1
    /\ last_displayed_stats = LastDisplay.snap

(* ---------------------------------------------------------------------- *)
(* C5                                                                      *)
(* ---------------------------------------------------------------------- *)
\* C5 as stated: an update() on a widget holding a snapshot whose fetch fails
\* with a transport error (requests.get or raise_for_status raising) gets
\* None from the fetch and keeps the snapshot it held.
C5_AsStated ==
    [][(IsCall /\ call'.op = "update" /\ enabled /\ channel_stats # None
          /\ call'.why \in {"net_error", "http_error"}) =>
         /\ call'.ret = None
         /\ channel_stats' = channel_stats]_vars

(* ---------------------------------------------------------------------- *)
(* C6                                                                      *)
(* ---------------------------------------------------------------------- *)
\* C6: a disabled widget stays disabled, and its update() and display()
\* calls do nothing: no cache lookup or write, no network call, no counter
\* increment, no clear, compose or hand-off; channel_stats,
\* last_displayed_stats, the cache and the surface stay as they were.
C6_DisabledInert ==
    [][~enabled =>
         /\ ~enabled'
         /\ UNCHANGED <<channel_stats, last_displayed_stats, cache, surface>>
         /\ IsCall => (call'.eff = <<>> /\ ~call'.fetched /\ call'.exc = "")]_vars

\* a disabled widget with a valid configuration and a cache entry, after
\* calls to update() and display(force_clear=True)
C6_Witness ==
    /\ ~enabled /\ ValidConfig /\ cache # None
    /\ call.op = "update" /\ Len(dhist) = 2 /\ LastDisplay.force
    /\ channel_stats = None /\ surface = BlankSurface

(* ---------------------------------------------------------------------- *)
(* C7                                                                      *)
(* ---------------------------------------------------------------------- *)
\* C7: with an empty channel id or API key, every fetch returns None without
\* a cache lookup, a network call or a cache write, whatever the cache
\* holds, and the widget never has a snapshot.
C7_ConfigShortCircuit ==
    [][~ValidConfig =>
         /\ channel_stats' = None
         /\ cache' = cache
         /\ IsCall => /\ call'.eff = <<>>
                      /\ call'.ret = None /\ call'.exc = ""
                      /\ call'.fetched => call'.why = "config"]_vars

\* an enabled widget without an API key or channel id and with an entry in
\* the cache, after a display() that tried to fetch
C7_Witness ==
    /\ enabled /\ ~ValidConfig /\ cache # None
    /\ DisplayJustReturned /\ call.fetched /\ call.why = "config"
    /\ channel_stats = None

(* ---------------------------------------------------------------------- *)
(* C8                                                                      *)
(* ---------------------------------------------------------------------- *)
FailureModes == {"net_error", "http_error", "bad_json", "no_items", "field"}

\* C8 as stated: in every failure mode of the fetch (network error, non-2xx,
\* no or empty items, a missing or malformed field) the fetch returns None
\* and raises nothing, so update() and display() return normally.
C8_AsStated ==
    (call.fetched /\ call.why \in FailureModes) => (call.ret = None /\ call.exc = "")

(* ---------------------------------------------------------------------- *)
(* C9                                                                      *)
(* ---------------------------------------------------------------------- *)
\* C9: every update() on an enabled widget makes one fetch (at most one
\* cache lookup and one network call) and, when the fetch returns,
\* channel_stats is the value it returned, None included, whatever the
\* snapshot was before; update() touches neither last_displayed_stats nor
\* the surface.  (A fetch that raises returns no value: C8.)
C9_UpdateReplacesSnapshot ==
    [][(IsCall /\ call'.op = "update" /\ enabled) =>
         /\ call'.fetched
         /\ Count(call'.eff, "cache_get") <= 1
         /\ Count(call'.eff, "http_get") <= 1
         /\ call'.exc = "" => channel_stats' = call'.ret
         /\ RenderPart(call'.eff) = <<>>
         /\ UNCHANGED <<last_displayed_stats, surface>>]_vars

\* an update() replaced a snapshot that had been displayed by a different
\* one, and last_displayed_stats still is the old one
C9_Witness ==
    /\ enabled /\ call.op = "update" /\ call.why = "ok"
    /\ channel_stats = call.ret
    /\ last_displayed_stats # None
    /\ ~SameSnapshot(last_displayed_stats, channel_stats)
    /\ surface.panel # None

(* ---------------------------------------------------------------------- *)
(* C10                                                                     *)
(* ---------------------------------------------------------------------- *)
\* the composer can draw the snapshot the widget holds
Drawable == CreateDisplay(channel_stats, youtube_logo, font, matrix, TRUE) # None

\* C10 as stated (first sentence): a display() that fetched because the
\* widget had no snapshot, and whose fetch returned a record, leaves the
\* widget with that snapshot and, composition succeeding, puts the image on
\* the surface with exactly one update_display().
C10_AsStated ==
    (DisplayJustReturned /\ enabled /\ call.fetched /\ call.ret # None) =>
        /\ channel_stats = call.ret
        /\ (Drawable /\ (Has(call.eff, "compose") => LastDisplay.img # None)) =>
              /\ Updates(LastDisplay) = 1
              /\ surface.panel = LastDisplay.img

\* C10 (end-to-end part): the first display() of a widget, when it has a
\* snapshot and composition succeeds, updates the surface; a following
\* display() of the same snapshot without force_clear does not; a
\* display(force_clear=True) after that skip, the image still on the panel,
\* updates the surface again, with the same content.
C10_EndToEnd ==
    /\ (enabled /\ Len(dhist) = 1 /\ LastDisplay.snap # None) =>
          /\ Has(LastDisplay.render, "compose")
          /\ LastDisplay.img # None =>
                (Updates(LastDisplay) = 1 /\ LastDisplay.shown = LastDisplay.img)
    /\ (enabled /\ Len(dhist) = 2 /\ Updates(PrevDisplay) = 1 /\ ~LastDisplay.force
          /\ SameSnapshot(PrevDisplay.snap, LastDisplay.snap)) =>
          (LastDisplay.render = <<>> /\ LastDisplay.shown = PrevDisplay.shown)
    /\ (enabled /\ Len(dhist) = 2 /\ PrevDisplay.render = <<>> /\ LastDisplay.force
          /\ PrevDisplay.shown # None
          /\ SameSnapshot(PrevDisplay.snap, LastDisplay.snap)
          /\ LastDisplay.img # None) =>
          (Updates(LastDisplay) = 1 /\ LastDisplay.shown = PrevDisplay.shown)

\* the end-to-end run: a skipped display() followed by a forced one that
\* put the same content on the surface again
C10_EndToEndReached ==
    /\ enabled /\ Len(dhist) = 2 /\ DisplayJustReturned
    /\ ~PrevDisplay.force /\ PrevDisplay.render = <<>> /\ PrevDisplay.snap # None
    /\ PrevDisplay.shown # None
    /\ LastDisplay.force /\ SameSnapshot(PrevDisplay.snap, LastDisplay.snap)
    /\ Updates(LastDisplay) = 1 /\ LastDisplay.shown = PrevDisplay.shown

(* ---------------------------------------------------------------------- *)
(* C11                                                                     *)
(* ---------------------------------------------------------------------- *)
\* C11: a call whose fetch returns None (or raises) leaves the widget without
\* a snapshot if it had none, a fetch that returns None always leaves it
\* without one, and a widget without a snapshot fetches on every call; so
\* from the first fetch that returns None on, while fetches keep returning
\* None, no update() or display() call, forced or not, calls clear(), hands
\* an image off or calls update_display(), and the panel keeps what it shows.
C11_NoRenderWhileFailing ==
    [][(IsCall /\ enabled) =>
         /\ channel_stats = None => call'.fetched
         /\ (call'.fetched /\ call'.exc = "" /\ call'.ret = None) =>
               /\ channel_stats' = None
               /\ RenderPart(call'.eff) = <<>>
               /\ surface' = surface /\ last_displayed_stats' = last_displayed_stats
         /\ (call'.fetched /\ call'.exc # "") =>
               /\ channel_stats' = channel_stats
               /\ RenderPart(call'.eff) = <<>>
               /\ surface' = surface]_vars

\* an image is on the panel, fetches fail, and two display() calls in a row,
\* the last one forced, have left it there
C11_Witness ==
    /\ enabled /\ DisplayJustReturned /\ Len(dhist) = 2
    /\ call.force /\ call.fetched /\ call.ret = None /\ call.why = "net_error"
    /\ PrevDisplay.snap = None /\ LastDisplay.snap = None
    /\ channel_stats = None
    /\ surface.panel # None /\ LastDisplay.shown = surface.panel

(* ---------------------------------------------------------------------- *)
(* C12                                                                     *)
(* ---------------------------------------------------------------------- *)
\* what _get_channel_stats would do now, were the endpoint to answer resp
FetchNow(resp) ==
    GetChannelStats(channel_id, api_key, update_interval_config, cache, now, resp)

\* C12 as stated: the counter is called exactly when the fetch obtained a
\* record from the endpoint and returned it.
C12_AsStated ==
    call.fetched => (Count(call.eff, "counter") = IF call.why = "ok" THEN 1 ELSE 0)

\* C12: the counter is called once by every fetch whose request returned a
\* 2xx response with a JSON body, whether or not a record came out of it
\* (no items, a missing or malformed field), and by no other call: not on a
\* cache hit, a configuration short-circuit, a transport, HTTP or JSON
\* failure; a counter that is absent or that raises changes neither the
\* value returned, nor the exception, nor the cache.
C12_CounterPerParsedResponse ==
    /\ Count(call.eff, "counter") =
          IF call.fetched /\ call.why \in {"ok", "no_items", "field"} THEN 1 ELSE 0
    /\ \A r \in Responses : \A k \in CounterOutcomes :
          LET a == FetchNow(WithCounter(r, "ok"))
              b == FetchNow(WithCounter(r, k))
          IN  a.ret = b.ret /\ a.exc = b.exc /\ a.cache = b.cache /\ a.why = b.why

\* the counter raised, and the fetch still returned the record and cached it
C12_Witness ==
    /\ call.fetched /\ call.why = "ok" /\ call.exc = ""
    /\ Has(call.eff, "counter_raised") /\ Has(call.eff, "cache_set")
    /\ call.ret # None /\ channel_stats = call.ret
    /\ cache = CacheSet(call.ret[1], now, update_interval_config)

(* ---------------------------------------------------------------------- *)
(* C13: the widget on panels of several widths                             *)
(* ---------------------------------------------------------------------- *)
\* panels 32 high with the 32x32 logo: max_chars is 0, 1, 2, 3, 4, 5, 8, 12
ComposeWidths == {32, 40, 48, 56, 64, 72, 96, 128}
ComposeMatrixSizes == {[width |-> w, height |-> 32] : w \in ComposeWidths}

\* an enabled, configured widget with both assets and an empty cache, on any
\* of these panels
InitCompose ==
    /\ channel_id = "UC123"
    /\ api_key = "key"
    /\ update_interval_config = RefreshInterval
    /\ channel_stats = None
    /\ last_displayed_stats = None
    /\ font = "truetype"
    /\ youtube_logo = Some(LogoSize)
    /\ enabled = TRUE
    /\ cache = None
    /\ now = 0
    /\ matrix \in ComposeMatrixSizes
    /\ surface = BlankSurface
    /\ call = NoCall
    /\ dhist = <<>>

\* update() and display() calls at one instant
NextCompose == Update \/ Display
SpecCompose == InitCompose /\ [][NextCompose]_vars

\* the name of the snapshot the last display() composed, the name on the
\* image it made, and the budget of the panel
ComposedName == LastDisplay.snap[1].title.v
RenderedName == LastDisplay.img[1].name
Budget == MaxChars(matrix, youtube_logo[1])
Ellipsis == <<".", ".", ".">>
Composed == DisplayJustReturned /\ LastDisplay.img # None

\* C13 as stated: for every budget N, a name longer than N is drawn as its
\* first N-3 characters and the marker, N characters in all; a name of at
\* most N characters is drawn unchanged.
C13_AsStated ==
    Composed =>
        IF Len(ComposedName) > Budget
        THEN /\ Len(RenderedName) = Budget
             /\ RenderedName = SubSeq(ComposedName, 1, Budget - 3) \o Ellipsis
        ELSE RenderedName = ComposedName

\* C13: for every budget N of at least 3, a name longer than N is drawn as
\* its first N-3 characters and the marker, N characters in all; a name of
\* at most N characters is drawn unchanged.
C13_TruncationFromThree ==
    (Composed /\ Budget >= 3) =>
        IF Len(ComposedName) > Budget
        THEN /\ Len(RenderedName) = Budget
             /\ RenderedName = SubSeq(ComposedName, 1, Budget - 3) \o Ellipsis
        ELSE RenderedName = ComposedName

\* the seven-character name on the panel with room for four
C13_Witness ==
    /\ Composed /\ Budget = 4
    /\ ComposedName = LongName
    /\ RenderedName = <<"C", ".", ".", ".">>
    /\ surface.panel = LastDisplay.img

(* ---------------------------------------------------------------------- *)
(* C14                                                                     *)
(* ---------------------------------------------------------------------- *)
\* the records the widget holds: snapshot, render state, cache entry
HeldRecords ==
    {x[1] : x \in {channel_stats, last_displayed_stats} \ {None}}
        \cup {c[1].value : c \in {cache} \ {None}}

\* C14 as stated: every record held as the snapshot, as the render state or
\* in the cache has subscribers >= 0 and views >= 0, whatever the endpoint
\* answered with counts that int() accepts.
C14_AsStated ==
    \A r \in HeldRecords : r.subscribers >= 0 /\ r.views >= 0

(* ---------------------------------------------------------------------- *)
(* C15                                                                     *)
(* ---------------------------------------------------------------------- *)
\* no host call yet: the widget is as __init__ left it
JustConstructed == call.op = "none"
\* the host's 'enabled' option was on: _initialize_display ran and set a font
OptionOn == font # "none"

\* C15 as stated: right after construction the widget is disabled whenever
\* channel_id or api_key is empty or the logo was not loaded, and a missing
\* font (the default font was taken) does not disable it.
C15_AsStated ==
    JustConstructed =>
        /\ (~ValidConfig \/ youtube_logo = None) => ~enabled
        /\ (ValidConfig /\ youtube_logo # None /\ font = "default") => enabled

\* C15: right after construction the widget is disabled exactly when the
\* host's 'enabled' option is off or the logo was not loaded; an empty
\* channel_id or api_key does not disable it, and neither does a missing
\* font (the default font is taken).
C15_DisabledByOptionOrLogo ==
    JustConstructed =>
        /\ (~OptionOn \/ youtube_logo = None) => ~enabled
        /\ (OptionOn /\ youtube_logo # None) => enabled
        /\ OptionOn => font \in {"truetype", "default"}

\* constructed with no channel_id, no api_key and no font file, and enabled
C15_Witness ==
    /\ JustConstructed /\ enabled
    /\ channel_id = "" /\ api_key = ""
    /\ font = "default" /\ youtube_logo # None

(* ---------------------------------------------------------------------- *)
(* C16: validate_config                                                    *)
(* ---------------------------------------------------------------------- *)
\* a slip in validate_config: the api_key check is missing
ValidateConfigOutNoKey(w, baseOk) ==
    IF ~baseOk THEN [ret |-> FALSE, why |-> "base"]
    ELSE IF w.channel_id = "" THEN [ret |-> FALSE, why |-> "channel_id"]
    ELSE [ret |-> TRUE, why |-> "valid"]

\* validate_config: the value returned (ret) and the return statement
\* reached (why); baseOk is what super().validate_config() returned
ValidateConfigOut(w, baseOk) ==
    IF ~baseOk THEN [ret |-> FALSE, why |-> "base"]
    ELSE IF w.channel_id = "" THEN [ret |-> FALSE, why |-> "channel_id"]
    ELSE IF w.api_key = "" THEN [ret |-> FALSE, why |-> "api_key"]
    ELSE [ret |-> TRUE, why |-> "valid"]

ValidateConfig ==
    \E baseOk \in BOOLEAN :
      \E v \in {ValidateConfigOut(Widget, baseOk)} :
        /\ call' = [op |-> "validate_config", seq |-> 1 - call.seq, force |-> FALSE,
                    eff |-> <<>>, exc |-> "", fetched |-> FALSE,
                    why |-> v.why, ret |-> None]
        /\ UNCHANGED <<enabled, config, channel_stats, last_displayed_stats, cache,
                       now, surface, dhist>>

\* update(), display() and validate_config() calls at one instant
NextValidate == Update \/ Display \/ ValidateConfig
SpecValidate == Init /\ [][NextValidate]_vars

\* C16: validate_config returns True exactly when the base validation
\* passes and channel_id and api_key are both non-empty, False otherwise,
\* and a validate_config() call changes nothing of the widget and calls
\* neither the cache, nor the network, nor the display.
C16_ValidateConfig ==
    [][/\ \A baseOk \in BOOLEAN :
            ValidateConfigOut(Widget, baseOk).ret =
                (baseOk /\ channel_id # "" /\ api_key # "")
       /\ (IsCall /\ call'.op = "validate_config") =>
            /\ call'.why \in {ValidateConfigOut(Widget, b).why : b \in BOOLEAN}
            /\ call'.eff = <<>> /\ ~call'.fetched /\ call'.exc = ""
            /\ UNCHANGED <<enabled, config, channel_stats, last_displayed_stats,
                           cache, now, surface, dhist>>]_vars

\* validate_config returned True on a widget that holds a snapshot, a
\* render state, a cache entry and an image on the panel
C16_Witness ==
    /\ call.op = "validate_config" /\ call.why = "valid"
    /\ channel_id # "" /\ api_key # ""
    /\ channel_stats # None /\ last_displayed_stats # None
    /\ cache # None /\ surface.panel # None

(* ---------------------------------------------------------------------- *)
(* C17                                                                     *)
(* ---------------------------------------------------------------------- *)
\* the call that ends this step fetched over the network and got a record
FetchedRecord ==
    /\ IsCall /\ call'.fetched /\ call'.exc = ""
    /\ Has(call'.eff, "http_get") /\ call'.ret # None

\* C17: a call whose fetch parsed a record from the endpoint calls
\* cache.set once and leaves in the cache the record it returned, stamped
\* now, with ttl = update_interval; every other step (cache hit,
\* configuration short-circuit, failed fetch, a call that does not fetch,
\* the passing of time) leaves the cache as it was and calls cache.set never.
C17_CacheWrittenOnSuccess ==
    [][IF FetchedRecord
       THEN /\ Count(call'.eff, "cache_set") = 1
            /\ cache' = Some([value |-> call'.ret[1], ts |-> now,
                              ttl |-> update_interval_config])
       ELSE /\ cache' = cache
            /\ IsCall => Count(call'.eff, "cache_set") = 0]_vars

\* a network fetch has replaced an expired entry of another record
C17_Witness ==
    /\ call.fetched /\ Has(call.eff, "http_get") /\ Has(call.eff, "cache_set")
    /\ call.ret # None /\ call.ret[1] # StatsOf(LeftOver)
    /\ now >= RefreshInterval
    /\ cache = Some([value |-> call.ret[1], ts |-> now, ttl |-> update_interval_config])

(* ---------------------------------------------------------------------- *)
(* C18                                                                     *)
(* ---------------------------------------------------------------------- *)
\* the image _create_display makes of the render state
ImageOfRenderState ==
    CreateDisplay(last_displayed_stats, youtube_logo, font, matrix, TRUE)

\* C18 as stated: whenever last_displayed_stats is set, the panel shows the
\* image composed from a snapshot equal to it; in particular a forced
\* display() whose composition gives None never leaves the panel cleared
\* while last_displayed_stats still equals channel_stats.
C18_AsStated ==
    last_displayed_stats # None =>
        /\ surface.panel = ImageOfRenderState
        /\ ~(/\ DisplayJustReturned /\ call.force /\ LastDisplay.img = None
              /\ surface.panel = None
              /\ SameSnapshot(last_displayed_stats, channel_stats))

(* ---------------------------------------------------------------------- *)
(* C19                                                                     *)
(* ---------------------------------------------------------------------- *)
\* the calls a host call may make at most once
OncePerCall == {"cache_get", "http_get", "clear", "update_display"}

\* C19: every update() and display() call makes at most one cache lookup,
\* one network request, one clear() and one update_display(); update()
\* draws nothing; display() fetches only when it holds no snapshot on entry.
C19_BoundedWork ==
    [][IsCall =>
         /\ \A e \in OncePerCall : Count(call'.eff, e) <= 1
         /\ call'.op = "update" => RenderPart(call'.eff) = <<>>
         /\ (call'.op = "display" /\ channel_stats # None) =>
               (~call'.fetched /\ FetchPart(call'.eff) = <<>>)
         /\ (call'.op = "display" /\ call'.fetched) => channel_stats = None]_vars

\* a forced display() that fetched over the network, cleared once and
\* updated the panel once
C19_Witness ==
    /\ call.op = "display" /\ call.force /\ call.fetched
    /\ Count(call.eff, "cache_get") = 1 /\ Count(call.eff, "http_get") = 1
    /\ Count(call.eff, "clear") = 1 /\ Count(call.eff, "update_display") = 1
    /\ channel_stats # None /\ surface.panel # None

====
